---- MODULE Spec2Model ----
(***************************************************************************)
(* Mission coordination state of scripts/server_ai_model.py: the module    *)
(* globals, the helpers that create and update missions, and the Flask     *)
(* request handlers that read and write them.                              *)
(*                                                                         *)
(* Python values are represented as follows.                               *)
(*   - None is the string "None"; the em-dash placeholder for "no mission" *)
(*     is the string "-".                                                  *)
(*   - A dict is a function from key strings to strings.  A JSON integer   *)
(*     is carried by its decimal text ("2"), so int() is a real parse.     *)
(*   - A status that is not a JSON string is the token NotAString.         *)
(*   - MISSIONS is the sequence of mission records in insertion order (a   *)
(*     Python dict iterates in insertion order); a mission id is fresh at  *)
(*     each creation ("mission_1", "mission_2", ...).                      *)
(*   - Timestamps have one-second resolution: a time is a number of        *)
(*     seconds, ended_at is <<>> while unset and <<t>> once set.           *)
(*   - mission["last_status"] holds a reference to the payload dict.  The  *)
(*     only dict that is ever mutated after it is stored is the one bound  *)
(*     to LAST_STATUS, so a reference is [ref |-> "LAST_STATUS"] while the *)
(*     mission shares the object bound to LAST_STATUS, and becomes         *)
(*     [ref |-> "own", obj |-> d] when LAST_STATUS is rebound.             *)
(***************************************************************************)
EXTENDS Integers, Sequences, FiniteSets, TLC

\* ------------------------------------------------------------------ bounds

\* The number of requests served in one behaviour of Spec.
MaxRequests == 4

\* SpecRun: the waypoint reports of one mission run, and the largest of the
\* small waypoint indices they carry.
MaxWaypointReports == 3

MaxIndex == 2

\* SpecImages: the number of uploads.
MaxUploads == 6

\* SpecRace: the number of /control_state requests in flight.
NPollers == 3

\* SpecIngest: the number of requests served.
MaxIngests == 3

\* SpecThreads: the number of /upload_photo and /status_update requests in
\* flight.
NWorkers == 2

VARIABLES
    MISSION_STATE,          \* "idle" | "start"
    LAST_STATUS,            \* dict: last status JSON from the robot
    CURRENT_MISSION_ID,     \* None or a mission id
    MISSIONS,               \* missions in insertion order
    CONTROL_COMMAND,        \* "none" | "abort" | "go_home"
    LAST_TERMINAL_STATUS,   \* None | "mission_complete" | ...
    now,                    \* the wall clock, in seconds
    nreq,                   \* the number of requests served so far
    op,                     \* the handler that ran last
    response,               \* the HTTP response it produced
    request,                \* the body it was sent (/status_update), or NoBody
    \* what the operator asked for, for the one-shot claims
    lastSet,                \* the command of the last set request, or "none"
    pollsSinceSet,          \* /control_state requests since then (0, 1, 2 = more)
    overwritten,            \* the unpolled command that set replaced, or "none"
    startedSinceSet,        \* a /start_mission request has been served since
    ingested,               \* a /status_update request has been served
    triggered,              \* a /start_mission request has been served
    \* a mission run driven report by report
    phase,                  \* "off" | "begin" | "waypoints" | "done"
    sentReached,            \* the indices reported reached
    sentUnreachable,        \* the indices reported unreachable
    registered,             \* the uploads that carried an image
    \* request threads inside /control_state, /abort_mission, /return_home
    pc,                     \* poller thread -> "start" | "l503" | "done"
    cmd,                    \* poller thread -> its local variable cmd
    returned,               \* poller thread -> the command it answered
    sawSet,                 \* poller thread -> the set was done when it read
    setter,                 \* "start" | the command the setter thread stored
    frame                   \* request thread -> its position and local variables

server == <<MISSION_STATE, LAST_STATUS, CURRENT_MISSION_ID, MISSIONS,
            CONTROL_COMMAND, LAST_TERMINAL_STATUS, now, nreq, op, response,
            request>>

history == <<lastSet, pollsSinceSet, overwritten, startedSinceSet, ingested,
             triggered>>

run == <<phase, sentReached, sentUnreachable, registered>>

polling == <<pc, cmd, returned, sawSet, setter>>

threads == <<pc, cmd, returned, sawSet, setter, frame>>

vars == <<server, history, run, threads>>

globals == <<MISSION_STATE, LAST_STATUS, CURRENT_MISSION_ID, MISSIONS,
             CONTROL_COMMAND, LAST_TERMINAL_STATUS>>

\* ------------------------------------------------------------ Python values

None == "None"

NoMissionPlaceholder == "-"

NotAString == "<number>"

EmptyDict == [k \in {} |-> ""]

Has(d, k) == k \in DOMAIN d

Get(d, k, default) == IF Has(d, k) THEN d[k] ELSE default

SetDefault(d, k, v) == IF Has(d, k) THEN d ELSE (k :> v) @@ d

SetItem(d, k, v) == (k :> v) @@ d

IsString(v) == v # NotAString

StartsWith(s, prefix) ==
    /\ Len(s) >= Len(prefix)
    /\ SubSeq(s, 1, Len(prefix)) = prefix

Digits == "0123456789"

IsDigit(c) == \E d \in 0..9 : SubSeq(Digits, d + 1, d + 1) = c

DigitOf(c) == CHOOSE d \in 0..9 : SubSeq(Digits, d + 1, d + 1) = c

\* int(idx) succeeds on the decimal text of a JSON integer and raises
\* ValueError on any other text.
CanInt(text) ==
    /\ Len(text) > 0
    /\ \A i \in 1..Len(text) : IsDigit(SubSeq(text, i, i))

RECURSIVE IntOf(_)
IntOf(text) ==
    IF Len(text) = 1 THEN DigitOf(text)
    ELSE 10 * IntOf(SubSeq(text, 1, Len(text) - 1))
         + DigitOf(SubSeq(text, Len(text), Len(text)))

OrPlaceholder(id) == IF id = None THEN NoMissionPlaceholder ELSE id

\* --------------------------------------------------------- HTTP responses

Ok(body) == [code |-> 200, body |-> body]

ServerError == [code |-> 500, body |-> "error"]

BadRequest(body) == [code |-> 400, body |-> body]

\* A request that carries no JSON body.
NoBody == [kind |-> "none"]

\* ------------------------------------------------------- helpers: missions

NoRef == [ref |-> "none"]

SharedRef == [ref |-> "LAST_STATUS"]

OwnRef(d) == [ref |-> "own", obj |-> d]

_new_mission_id(ms) == "mission_" \o ToString(Len(ms) + 1)

\* A mission that is created already running.
NewMissionRunning(id, t) ==
    [id |-> id,
     started_at |-> t,
     ended_at |-> <<>>,
     status |-> "running",
     waypoints_reached |-> {},
     waypoints_unreachable |-> {},
     images_count |-> 0,
     last_status |-> NoRef]

NewMission(id, t) ==
    [id |-> id,
     started_at |-> t,
     ended_at |-> <<>>,
     status |-> "pending",
     waypoints_reached |-> {},
     waypoints_unreachable |-> {},
     images_count |-> 0,
     last_status |-> NoRef]

\* A start that registers the new mission in place of the registry.
_start_new_mission_alone(ms, t) ==
    LET mission_id == _new_mission_id(ms) IN
    [missions |-> <<NewMission(mission_id, t)>>,
     current |-> mission_id,
     terminal |-> None]

\* The globals _start_new_mission leaves behind.
_start_new_mission(ms, t) ==
    LET mission_id == _new_mission_id(ms) IN
    [missions |-> Append(ms, NewMission(mission_id, t)),
     current |-> mission_id,
     terminal |-> None]

\* MISSIONS.get(id): the position of the mission, 0 when there is none.
Lookup(ms, id) ==
    IF \E i \in 1..Len(ms) : ms[i].id = id
    THEN CHOOSE i \in 1..Len(ms) : ms[i].id = id
    ELSE 0

\* Rebinding LAST_STATUS detaches the missions that shared the old dict.
Detach(ms, old) ==
    [i \in 1..Len(ms) |->
        IF ms[i].last_status = SharedRef
        THEN [ms[i] EXCEPT !.last_status = OwnRef(old)]
        ELSE ms[i]]

\* A match of home_unreachable that is exact instead of by prefix.
TerminalOfExact(status) ==
    IF status \in {"mission_complete", "mission_complete_after_abort"}
    THEN "mission_complete"
    ELSE IF ~IsString(status) THEN "raise"
    ELSE IF status = "home_unreachable" THEN "home_unreachable"
    ELSE IF status = "mission_aborted_by_operator"
    THEN "mission_aborted_by_operator"
    ELSE "no_transition"

\* The branch of lines 108-121 a status takes; a status that is not a string
\* reaches status.startswith and raises AttributeError.
TerminalOf(status) ==
    IF status \in {"mission_complete", "mission_complete_after_abort"}
    THEN "mission_complete"
    ELSE IF ~IsString(status) THEN "raise"
    ELSE IF StartsWith(status, "home_unreachable") THEN "home_unreachable"
    ELSE IF status = "mission_aborted_by_operator"
    THEN "mission_aborted_by_operator"
    ELSE "no_transition"

MissionStatusOf(terminal) ==
    IF terminal = "mission_complete" THEN "complete"
    ELSE IF terminal = "home_unreachable" THEN "home_unreachable"
    ELSE "aborted"

\* Lines 92-121 on one mission: the mission as the function leaves it, the
\* new LAST_TERMINAL_STATUS, and whether the function raised on the way.
ApplyStatus(m, terminal, payload, t) ==
    LET status == Get(payload, "status", "")
        m1 == [m EXCEPT !.last_status = SharedRef]
        m2 == IF status = "mission_started"
              THEN [m1 EXCEPT !.status = "running"] ELSE m1
        idx == Get(payload, "index", None)
        isWp == status \in {"waypoint_reached", "waypoint_unreachable"}
                /\ idx # None
        wpRaises == isWp /\ ~CanInt(idx)
        m3 == IF isWp /\ ~wpRaises
              THEN IF status = "waypoint_reached"
                   THEN [m2 EXCEPT !.waypoints_reached = @ \cup {IntOf(idx)}]
                   ELSE [m2 EXCEPT !.waypoints_unreachable = @ \cup {IntOf(idx)}]
              ELSE m2
        outcome == TerminalOf(status)
    IN  IF wpRaises \/ outcome = "raise"
        THEN [mission |-> m3, terminal |-> terminal, raised |-> TRUE]
        ELSE IF outcome = "no_transition"
        THEN [mission |-> m3, terminal |-> terminal, raised |-> FALSE]
        ELSE [mission |-> [m3 EXCEPT !.status = MissionStatusOf(outcome),
                                     !.ended_at = <<t>>],
              terminal |-> outcome,
              raised |-> FALSE]

\* A report of any status opens a mission when none is current.
StartsMissionAlways(payload) == TRUE

\* The report opens a mission when none is current.
StartsMission(payload) == Get(payload, "status", None) = "mission_started"

\* _update_mission_on_status: the globals it leaves behind, and whether it
\* raised.
_update_mission_on_status(ms, current, terminal, payload, t) ==
    LET unchanged == [missions |-> ms, current |-> current,
                      terminal |-> terminal, raised |-> FALSE]
        started == IF current = None
                   THEN _start_new_mission(ms, t)
                   ELSE [missions |-> ms, current |-> current,
                         terminal |-> terminal]
        i == Lookup(started.missions, started.current)
        applied == ApplyStatus(started.missions[i], started.terminal, payload, t)
    IN  IF current = None /\ ~StartsMission(payload)
        THEN unchanged
        ELSE IF i = 0
        THEN [missions |-> started.missions, current |-> started.current,
              terminal |-> started.terminal, raised |-> FALSE]
        ELSE [missions |-> [started.missions EXCEPT ![i] = applied.mission],
              current |-> started.current,
              terminal |-> applied.terminal,
              raised |-> applied.raised]

\* An image registration that opens a mission of its own every time.
_register_image_always_new(ms, current, terminal, t) ==
    LET started == _start_new_mission(ms, t)
        i == Len(started.missions)
    IN  [started EXCEPT !.missions[i].images_count = @ + 1,
                        !.missions[i].status = "running"]

\* _register_image_for_current_mission: the globals it leaves behind.
_register_image_for_current_mission(ms, current, terminal, t) ==
    LET started == IF current = None
                   THEN _start_new_mission(ms, t)
                   ELSE [missions |-> ms, current |-> current,
                         terminal |-> terminal]
        i == Lookup(started.missions, started.current)
        m == started.missions[i]
        m1 == [m EXCEPT !.images_count = @ + 1]
        m2 == IF m1.status = "pending"
              THEN [m1 EXCEPT !.status = "running"] ELSE m1
    IN  IF i = 0 THEN started
        ELSE [started EXCEPT !.missions[i] = m2]

\* The elements of a set of integers, descending.
RECURSIVE SortedListDescending(_)
SortedListDescending(s) ==
    IF s = {} THEN <<>>
    ELSE LET greatest == CHOOSE x \in s : \A y \in s : x >= y
         IN  <<greatest>> \o SortedListDescending(s \ {greatest})

\* sorted(list(s)): the elements of a set of integers, ascending.
RECURSIVE SortedList(_)
SortedList(s) ==
    IF s = {} THEN <<>>
    ELSE LET least == CHOOSE x \in s : \A y \in s : x <= y
         IN  <<least>> \o SortedList(s \ {least})

_mission_summary(mission) ==
    [id |-> mission.id,
     started_at |-> mission.started_at,
     ended_at |-> mission.ended_at,
     status |-> mission.status,
     waypoints_reached |-> SortedList(mission.waypoints_reached),
     waypoints_unreachable |-> SortedList(mission.waypoints_unreachable),
     images_count |-> mission.images_count]

\* ---------------------------------------------------------------- sorting

Reverse(s) == [i \in 1..Len(s) |-> s[Len(s) + 1 - i]]

\* Insert x into the ascending sequence s after every element whose key is
\* not greater: the step of a stable sort.
RECURSIVE InsertStable(_, _)
InsertStable(x, s) ==
    IF s = <<>> THEN <<x>>
    ELSE IF x.started_at < Head(s).started_at THEN <<x>> \o s
    ELSE <<Head(s)>> \o InsertStable(x, Tail(s))

RECURSIVE StableSortAscending(_)
StableSortAscending(s) ==
    IF s = <<>> THEN <<>>
    ELSE InsertStable(s[Len(s)], StableSortAscending(SubSeq(s, 1, Len(s) - 1)))

\* A descending sort that reverses the ascending one: equal keys end up in
\* reverse order.
SortedThenReversed(items) == Reverse(StableSortAscending(items))

\* sorted(items, key=started_at, reverse=True): CPython reverses the list,
\* sorts it stably in ascending order and reverses the result, so elements
\* with equal keys keep their original order.
SortedReverse(items) == Reverse(StableSortAscending(Reverse(items)))

\* ---------------------------------------------------------------- handlers

\* A start that leaves LAST_STATUS as it found it.
StatusAfterStartKept(last, mission_id) == last

\* LAST_STATUS after /start_mission: setdefault("status", "mission_idle")
\* and the store of the new mission id.
StatusAfterStart(last, mission_id) ==
    SetItem(SetDefault(last, "status", "mission_idle"), "mission_id", mission_id)

\* A start that empties the command slot.
ControlAfterStartCleared(slot) == "none"

\* The command slot after /start_mission: neither the handler nor
\* _start_new_mission declares CONTROL_COMMAND global or assigns it.
ControlAfterStart(slot) == slot

start_mission(t) ==
    LET started == _start_new_mission(MISSIONS, t) IN
    /\ MISSION_STATE' = "start"
    /\ MISSIONS' = started.missions
    /\ CURRENT_MISSION_ID' = started.current
    /\ LAST_STATUS' = StatusAfterStart(LAST_STATUS, started.current)
    /\ LAST_TERMINAL_STATUS' = None
    /\ CONTROL_COMMAND' = ControlAfterStart(CONTROL_COMMAND)
    /\ now' = t
    /\ op' = "start_mission"
    /\ request' = NoBody
    /\ response' = Ok([ok |-> TRUE, mission_id |-> started.current])

\* A poll that reads the start flag and leaves it set.
MissionStateAfterPollKept(state) == state

\* The start flag after a poll that read it.
MissionStateAfterPoll(state) == IF state = "start" THEN "idle" ELSE state

mission_state ==
    /\ MISSION_STATE' = MissionStateAfterPoll(MISSION_STATE)
    /\ UNCHANGED <<LAST_STATUS, CURRENT_MISSION_ID, MISSIONS, CONTROL_COMMAND,
                   LAST_TERMINAL_STATUS, now>>
    /\ op' = "mission_state"
    /\ request' = NoBody
    /\ response' = Ok([mission_state |-> MISSION_STATE])

\* A set that keeps the command the slot already holds.
ControlAfterSetIfEmpty(slot, command) == IF slot = "none" THEN command ELSE slot

\* The command slot after a set: the store overwrites what the slot held.
ControlAfterSet(slot, command) == command

abort_mission ==
    /\ CONTROL_COMMAND' = ControlAfterSet(CONTROL_COMMAND, "abort")
    /\ UNCHANGED <<MISSION_STATE, LAST_STATUS, CURRENT_MISSION_ID, MISSIONS,
                   LAST_TERMINAL_STATUS, now>>
    /\ op' = "abort_mission"
    /\ request' = NoBody
    /\ response' = Ok([ok |-> TRUE, command |-> "abort"])

\* The return statement calls the undefined name jupytext: the handler
\* raises NameError after the store, and Flask answers 500.
return_home ==
    /\ CONTROL_COMMAND' = ControlAfterSet(CONTROL_COMMAND, "go_home")
    /\ UNCHANGED <<MISSION_STATE, LAST_STATUS, CURRENT_MISSION_ID, MISSIONS,
                   LAST_TERMINAL_STATUS, now>>
    /\ op' = "return_home"
    /\ request' = NoBody
    /\ response' = ServerError

\* A poll that leaves the command slot as it found it.
ControlAfterPollKept == CONTROL_COMMAND

\* The command slot after a poll.
ControlAfterPoll == "none"

control_state ==
    /\ CONTROL_COMMAND' = ControlAfterPoll
    /\ UNCHANGED <<MISSION_STATE, LAST_STATUS, CURRENT_MISSION_ID, MISSIONS,
                   LAST_TERMINAL_STATUS, now>>
    /\ op' = "control_state"
    /\ request' = NoBody
    /\ response' = Ok([command |-> CONTROL_COMMAND])

\* request.get_json(force=True) or {}, with the except branch.
ParsedBody(raw) ==
    IF raw.kind = "unparsable" THEN [status |-> "bad_status_payload"]
    ELSE IF raw.kind = "falsy" THEN EmptyDict
    ELSE raw.value

\* A report handler that also drops the start flag when a mission completes.
MissionStateAfterReportOrComplete(status, state) ==
    IF status \in {"mission_idle", "mission_complete"} THEN "idle" ELSE state

\* The start flag after a report with this status.
MissionStateAfterReport(status, state) ==
    IF status = "mission_idle" THEN "idle" ELSE state

status_update(raw, t) ==
    /\ now' = t
    /\ op' = "status_update"
    /\ request' = raw
    /\ IF raw.kind = "nonmapping"
       THEN /\ response' = ServerError
            /\ UNCHANGED globals
       ELSE LET payload0 == ParsedBody(raw)
                status == Get(payload0, "status", "")
                state == MissionStateAfterReport(status, MISSION_STATE)
                payload == SetDefault(
                               SetDefault(payload0, "mission_state", state),
                               "mission_id", OrPlaceholder(CURRENT_MISSION_ID))
                after == _update_mission_on_status(
                             Detach(MISSIONS, LAST_STATUS), CURRENT_MISSION_ID,
                             LAST_TERMINAL_STATUS, payload, t)
            IN  /\ MISSION_STATE' = state
                /\ LAST_STATUS' = payload
                /\ MISSIONS' = after.missions
                /\ CURRENT_MISSION_ID' = after.current
                /\ LAST_TERMINAL_STATUS' = after.terminal
                /\ UNCHANGED CONTROL_COMMAND
                /\ response' = IF after.raised THEN ServerError
                               ELSE Ok([ok |-> TRUE])

last_status ==
    /\ op' = "last_status"
    /\ request' = NoBody
    /\ UNCHANGED <<MISSION_STATE, CURRENT_MISSION_ID, MISSIONS, CONTROL_COMMAND,
                   LAST_TERMINAL_STATUS, now>>
    /\ IF DOMAIN LAST_STATUS = {}
       THEN /\ response' = Ok([status |-> "no_status_yet",
                               mission_state |-> MISSION_STATE,
                               mission_id |-> OrPlaceholder(CURRENT_MISSION_ID),
                               terminal_status |-> LAST_TERMINAL_STATUS])
            /\ UNCHANGED LAST_STATUS
       ELSE LET merged == SetItem(
                    SetDefault(
                        SetDefault(LAST_STATUS, "mission_state", MISSION_STATE),
                        "mission_id", OrPlaceholder(CURRENT_MISSION_ID)),
                    "terminal_status", LAST_TERMINAL_STATUS)
            IN  /\ LAST_STATUS' = merged
                /\ response' = Ok(merged)

\* The list /missions answers with.
ListMissions(ms) ==
    LET items == [i \in 1..Len(ms) |-> _mission_summary(ms[i])]
    IN  SortedReverse(items)

missions ==
    /\ op' = "missions"
    /\ request' = NoBody
    /\ UNCHANGED <<globals, now>>
    /\ response' = Ok([missions |-> ListMissions(MISSIONS)])

\* The mission part of /upload_photo; storing the file and running the
\* detector are outside this state.
upload_photo(hasFile, t) ==
    /\ op' = "upload_photo"
    /\ request' = NoBody
    /\ UNCHANGED <<MISSION_STATE, LAST_STATUS, CONTROL_COMMAND>>
    /\ IF ~hasFile
       THEN /\ response' = BadRequest([status |-> "error",
                                       message |-> "no image field"])
            /\ UNCHANGED <<MISSIONS, CURRENT_MISSION_ID, LAST_TERMINAL_STATUS,
                           now>>
       ELSE LET after == _register_image_for_current_mission(
                             MISSIONS, CURRENT_MISSION_ID,
                             LAST_TERMINAL_STATUS, t)
            IN  /\ now' = t
                /\ MISSIONS' = after.missions
                /\ CURRENT_MISSION_ID' = after.current
                /\ LAST_TERMINAL_STATUS' = after.terminal
                /\ response' = Ok([status |-> "ok",
                                   mission_id |-> IF after.current = None
                                                  THEN "nomission"
                                                  ELSE after.current])

\* ------------------------------------------------------------------- state

\* The process after the module has been loaded.
Start ==
    /\ MISSION_STATE = "idle"
    /\ LAST_STATUS = EmptyDict
    /\ CURRENT_MISSION_ID = None
    /\ MISSIONS = <<>>
    /\ CONTROL_COMMAND = "none"
    /\ LAST_TERMINAL_STATUS = None
    /\ now = 0
    /\ nreq = 0
    /\ op = "init"
    /\ response = Ok("init")
    /\ request = NoBody

NoHistory ==
    /\ lastSet = "none"
    /\ pollsSinceSet = 0
    /\ overwritten = "none"
    /\ startedSinceSet = FALSE
    /\ ingested = FALSE
    /\ triggered = FALSE

NoRun ==
    /\ phase = "off"
    /\ sentReached = {}
    /\ sentUnreachable = {}
    /\ registered = 0

NoThreads ==
    /\ pc = <<>>
    /\ cmd = <<>>
    /\ returned = <<>>
    /\ sawSet = <<>>
    /\ setter = "start"
    /\ frame = <<>>

Init == Start /\ NoHistory /\ NoRun /\ NoThreads

\* ----------------------------------------------------------------- inputs

Report(d) == [kind |-> "mapping", value |-> d]

\* The request bodies of /status_update that Spec draws from.
Reports ==
    {Report([status |-> s]) :
        s \in {"mission_started", "mission_idle", "mission_complete",
               "mission_aborted_by_operator", "home_unreachable_retry",
               NotAString}}
    \cup {Report([status |-> "waypoint_reached", index |-> "1"])}

\* A handler that reads the clock runs in the second of the previous request
\* or in the next one.
Times == {now, now + 1}

\* ------------------------------------------------------------ specification

\* The requests served so far, read off the handler that ran: what the
\* operator panel has made of the command slot, and whether a report has
\* been ingested and a start has been triggered.
Observe ==
    /\ lastSet' = IF op' = "abort_mission" THEN "abort"
                  ELSE IF op' = "return_home" THEN "go_home"
                  ELSE lastSet
    /\ pollsSinceSet' = IF op' \in {"abort_mission", "return_home"} THEN 0
                        ELSE IF op' = "control_state"
                        THEN (IF pollsSinceSet = 0 THEN 1 ELSE 2)
                        ELSE pollsSinceSet
    /\ overwritten' = IF op' \in {"abort_mission", "return_home"}
                      THEN (IF pollsSinceSet = 0 THEN lastSet ELSE "none")
                      ELSE overwritten
    /\ startedSinceSet' = IF op' \in {"abort_mission", "return_home"}
                          THEN FALSE
                          ELSE (startedSinceSet \/ op' = "start_mission")
    /\ ingested' = (ingested \/ op' = "status_update")
    /\ triggered' = (triggered \/ op' = "start_mission")

\* One request, served from its first statement to its response.
Serve(handler) ==
    /\ nreq < MaxRequests
    /\ nreq' = nreq + 1
    /\ handler
    /\ Observe
    /\ UNCHANGED <<run, threads>>

\* Handlers run one at a time.
Next ==
    \/ \E t \in Times : Serve(start_mission(t))
    \/ Serve(mission_state)
    \/ Serve(abort_mission)
    \/ Serve(return_home)
    \/ Serve(control_state)
    \/ \E raw \in Reports, t \in Times : Serve(status_update(raw, t))
    \/ Serve(last_status)
    \/ Serve(missions)
    \/ \E t \in Times : Serve(upload_photo(TRUE, t))
    \/ Serve(upload_photo(FALSE, now))

Spec == Init /\ [][Next]_vars

\* ------------------------------------------------- one mission run, in order

RunIndices == (0..MaxIndex) \cup {MaxIndex + 10}

InitRun ==
    /\ Start /\ NoHistory /\ NoThreads
    /\ phase = "begin"
    /\ sentReached = {}
    /\ sentUnreachable = {}
    /\ registered = 0

RunStarted(t) ==
    /\ phase = "begin"
    /\ status_update(Report([status |-> "mission_started"]), t)
    /\ phase' = "waypoints"
    /\ UNCHANGED <<sentReached, sentUnreachable>>

RunReached(n, t) ==
    /\ phase = "waypoints"
    /\ nreq <= MaxWaypointReports
    /\ status_update(
           Report([status |-> "waypoint_reached", index |-> ToString(n)]), t)
    /\ sentReached' = sentReached \cup {n}
    /\ UNCHANGED <<phase, sentUnreachable>>

RunUnreachable(n, t) ==
    /\ phase = "waypoints"
    /\ nreq <= MaxWaypointReports
    /\ status_update(
           Report([status |-> "waypoint_unreachable", index |-> ToString(n)]), t)
    /\ sentUnreachable' = sentUnreachable \cup {n}
    /\ UNCHANGED <<phase, sentReached>>

RunComplete(t) ==
    /\ phase = "waypoints"
    /\ status_update(Report([status |-> "mission_complete"]), t)
    /\ phase' = "done"
    /\ UNCHANGED <<sentReached, sentUnreachable>>

\* One report of the run, served from its first statement to its response.
ServeRun(report) ==
    /\ nreq' = nreq + 1
    /\ report
    /\ Observe
    /\ UNCHANGED <<threads, registered>>

\* The robot reports mission_started, then waypoints, then mission_complete;
\* nothing else is requested.
NextRun ==
    \/ \E t \in Times : ServeRun(RunStarted(t))
    \/ \E n \in RunIndices, t \in Times : ServeRun(RunReached(n, t))
    \/ \E n \in RunIndices, t \in Times : ServeRun(RunUnreachable(n, t))
    \/ \E t \in Times : ServeRun(RunComplete(t))

SpecRun == InitRun /\ [][NextRun]_vars

\* ------------------------------------------------------------- uploads only

\* One upload, with or without the image field.
ServeUpload(hasFile, t) ==
    /\ nreq < MaxUploads
    /\ nreq' = nreq + 1
    /\ upload_photo(hasFile, t)
    /\ registered' = IF hasFile THEN registered + 1 ELSE registered
    /\ Observe
    /\ UNCHANGED <<threads, phase, sentReached, sentUnreachable>>

\* The robot uploads photos; nothing else is requested.
NextImages ==
    \/ \E t \in Times : ServeUpload(TRUE, t)
    \/ ServeUpload(FALSE, now)

SpecImages == Init /\ [][NextImages]_vars

\* ------------------------------------------------- reports of every shape

\* The request bodies of /status_update that SpecIngest draws from: a body
\* get_json cannot parse, a body that parses to a falsy value ({}, [], 0,
\* null), a body that parses to a truthy value that is not a dict ([1], 5),
\* and dicts: statuses with and without the prefix home_unreachable, a
\* status that is a number, waypoint indices that int() accepts and
\* rejects, and a report that carries its own mission_state and mission_id.
IngestBodies ==
    {[kind |-> "unparsable"], [kind |-> "falsy"], [kind |-> "nonmapping"]}
    \cup {Report([status |-> s]) :
            s \in {"mission_started", "mission_complete", "home_unreachable",
                   "home_unreachable_retry", "home_unreachabl",
                   "not_home_unreachable", NotAString}}
    \cup {Report([status |-> "waypoint_reached", index |-> i]) :
            i \in {"2", "two"}}
    \cup {Report([status |-> "mission_idle", mission_state |-> "start",
                  mission_id |-> "robot_7"])}

\* One request of SpecIngest, served from its first statement to its
\* response.
ServeIngest(handler) ==
    /\ nreq < MaxIngests
    /\ nreq' = nreq + 1
    /\ handler
    /\ Observe
    /\ UNCHANGED <<run, threads>>

\* The operator starts missions and aborts; the robot reports.
NextIngest ==
    \/ \E t \in Times : ServeIngest(start_mission(t))
    \/ ServeIngest(abort_mission)
    \/ \E raw \in IngestBodies, t \in Times : ServeIngest(status_update(raw, t))

SpecIngest == Init /\ [][NextIngest]_vars

\* ------------------------------------------------- requests served in threads

\* app.run() serves every request in a thread of its own, and no handler
\* takes a lock: the statements of /control_state interleave with the other
\* requests.
Pollers == 1..NPollers

InitRace ==
    /\ Start /\ NoHistory /\ NoRun
    /\ pc = [p \in Pollers |-> "start"]
    /\ cmd = [p \in Pollers |-> "unset"]
    /\ returned = [p \in Pollers |-> "unset"]
    /\ sawSet = [p \in Pollers |-> FALSE]
    /\ setter = "start"
    /\ frame = <<>>

\* cmd = CONTROL_COMMAND
control_state_read(p) ==
    /\ pc[p] = "start"
    /\ cmd' = [cmd EXCEPT ![p] = CONTROL_COMMAND]
    /\ sawSet' = [sawSet EXCEPT ![p] = (setter # "start")]
    /\ pc' = [pc EXCEPT ![p] = "l503"]
    /\ UNCHANGED <<server, returned, setter, frame, history, run>>

\* CONTROL_COMMAND = "none"; return jsonify({"command": cmd})
control_state_reset(p) ==
    /\ pc[p] = "l503"
    /\ CONTROL_COMMAND' = ControlAfterPoll
    /\ returned' = [returned EXCEPT ![p] = cmd[p]]
    /\ pc' = [pc EXCEPT ![p] = "done"]
    /\ UNCHANGED <<MISSION_STATE, LAST_STATUS, CURRENT_MISSION_ID, MISSIONS,
                   LAST_TERMINAL_STATUS, now, nreq, op, response, request,
                   cmd, sawSet, setter, frame, history, run>>

\* The one set request: its store is a single statement.
set_command(handler) ==
    /\ setter = "start"
    /\ handler
    /\ setter' = CONTROL_COMMAND'
    /\ UNCHANGED <<nreq, pc, cmd, returned, sawSet, frame, history, run>>

NextRace ==
    \/ set_command(abort_mission)
    \/ set_command(return_home)
    \/ \E p \in Pollers : control_state_read(p)
    \/ \E p \in Pollers : control_state_reset(p)

SpecRace == InitRace /\ [][NextRace]_vars

\* --------------------------------- uploads and reports served in threads

\* No handler takes a lock, so the statements of status_update,
\* _update_mission_on_status and _register_image_for_current_mission
\* interleave.  A thread's frame holds its position (at), the handler it runs (kind) and
\* its local variables: payload, mission (the position in MISSIONS of the
\* dict it holds, 0 for None), the images_count it loaded, and whether its
\* payload is the dict bound to LAST_STATUS.
Workers == 1..NWorkers

NewFrame ==
    [at |-> "start", kind |-> "none", payload |-> EmptyDict, mission |-> 0,
     count |-> 0, bound |-> FALSE]

InitThreads ==
    /\ Start /\ NoHistory /\ NoRun
    /\ pc = <<>>
    /\ cmd = <<>>
    /\ returned = <<>>
    /\ sawSet = <<>>
    /\ setter = "start"
    /\ frame = [p \in Workers |-> NewFrame]

\* The bodies of the reports in flight.
ThreadReports ==
    {Report([status |-> "mission_started"]),
     Report([status |-> "waypoint_reached", index |-> "1"]),
     Report([status |-> "mission_complete"])}

\* What a statement of a request thread leaves alone besides the globals.
ThreadFrame == UNCHANGED <<now, nreq, op, response, request, history, run,
                           polling>>

\* line 127: if not CURRENT_MISSION_ID
register_l127(p) ==
    /\ frame[p].at = "start"
    /\ frame' = [frame EXCEPT ![p].kind = "upload",
                              ![p].at = IF CURRENT_MISSION_ID = None
                                        THEN "l128" ELSE "l129"]
    /\ UNCHANGED globals
    /\ ThreadFrame

\* line 128: _start_new_mission()
register_l128(p) ==
    LET started == _start_new_mission(MISSIONS, now) IN
    /\ frame[p].kind = "upload" /\ frame[p].at = "l128"
    /\ MISSIONS' = started.missions
    /\ CURRENT_MISSION_ID' = started.current
    /\ LAST_TERMINAL_STATUS' = started.terminal
    /\ frame' = [frame EXCEPT ![p].at = "l129"]
    /\ UNCHANGED <<MISSION_STATE, LAST_STATUS, CONTROL_COMMAND>>
    /\ ThreadFrame

\* lines 129-131: mission = MISSIONS.get(CURRENT_MISSION_ID)
register_l129(p) ==
    LET i == Lookup(MISSIONS, CURRENT_MISSION_ID) IN
    /\ frame[p].kind = "upload" /\ frame[p].at = "l129"
    /\ frame' = [frame EXCEPT ![p].mission = i,
                              ![p].at = IF i = 0 THEN "done" ELSE "l132"]
    /\ UNCHANGED globals
    /\ ThreadFrame

\* line 132, the load of mission["images_count"] += 1
register_l132_load(p) ==
    /\ frame[p].kind = "upload" /\ frame[p].at = "l132"
    /\ frame' = [frame EXCEPT
                    ![p].count = MISSIONS[frame[p].mission].images_count,
                    ![p].at = "l132_store"]
    /\ UNCHANGED globals
    /\ ThreadFrame

\* line 132, the add and the store of mission["images_count"] += 1
register_l132_store(p) ==
    /\ frame[p].kind = "upload" /\ frame[p].at = "l132_store"
    /\ MISSIONS' = [MISSIONS EXCEPT
                       ![frame[p].mission].images_count = frame[p].count + 1]
    /\ frame' = [frame EXCEPT ![p].at = "l133"]
    /\ UNCHANGED <<MISSION_STATE, LAST_STATUS, CURRENT_MISSION_ID,
                   CONTROL_COMMAND, LAST_TERMINAL_STATUS>>
    /\ ThreadFrame

\* lines 133-134: pending becomes running
register_l133(p) ==
    LET i == frame[p].mission IN
    /\ frame[p].kind = "upload" /\ frame[p].at = "l133"
    /\ MISSIONS' = IF MISSIONS[i].status = "pending"
                   THEN [MISSIONS EXCEPT ![i].status = "running"]
                   ELSE MISSIONS
    /\ frame' = [frame EXCEPT ![p].at = "done"]
    /\ UNCHANGED <<MISSION_STATE, LAST_STATUS, CURRENT_MISSION_ID,
                   CONTROL_COMMAND, LAST_TERMINAL_STATUS>>
    /\ ThreadFrame

\* lines 510-523: the body is parsed, given its defaults and bound to
\* LAST_STATUS; the payload of every other thread is no longer bound to it.
status_l523(p, raw) ==
    LET payload0 == ParsedBody(raw)
        status == Get(payload0, "status", "")
        state == MissionStateAfterReport(status, MISSION_STATE)
        payload == SetDefault(
                       SetDefault(payload0, "mission_state", state),
                       "mission_id", OrPlaceholder(CURRENT_MISSION_ID))
    IN  /\ frame[p].at = "start"
        /\ MISSION_STATE' = state
        /\ LAST_STATUS' = payload
        /\ MISSIONS' = Detach(MISSIONS, LAST_STATUS)
        /\ frame' = [q \in Workers |->
                        IF q = p
                        THEN [frame[p] EXCEPT !.kind = "status", !.at = "l82",
                                              !.payload = payload,
                                              !.bound = TRUE]
                        ELSE [frame[q] EXCEPT !.bound = FALSE]]
        /\ UNCHANGED <<CURRENT_MISSION_ID, CONTROL_COMMAND,
                       LAST_TERMINAL_STATUS>>
        /\ ThreadFrame

\* lines 82-86: if not CURRENT_MISSION_ID
status_l82(p) ==
    /\ frame[p].kind = "status" /\ frame[p].at = "l82"
    /\ frame' = [frame EXCEPT
                    ![p].at = IF CURRENT_MISSION_ID # None THEN "l88"
                              ELSE IF StartsMission(frame[p].payload)
                              THEN "l84" ELSE "done"]
    /\ UNCHANGED globals
    /\ ThreadFrame

\* line 84: _start_new_mission()
status_l84(p) ==
    LET started == _start_new_mission(MISSIONS, now) IN
    /\ frame[p].kind = "status" /\ frame[p].at = "l84"
    /\ MISSIONS' = started.missions
    /\ CURRENT_MISSION_ID' = started.current
    /\ LAST_TERMINAL_STATUS' = started.terminal
    /\ frame' = [frame EXCEPT ![p].at = "l88"]
    /\ UNCHANGED <<MISSION_STATE, LAST_STATUS, CONTROL_COMMAND>>
    /\ ThreadFrame

\* lines 88-121: the mission that is current now takes the report; its
\* last_status is this thread's payload, which is the dict bound to
\* LAST_STATUS only if no other thread has rebound it since.
status_l88(p) ==
    LET i == Lookup(MISSIONS, CURRENT_MISSION_ID)
        applied == ApplyStatus(MISSIONS[i], LAST_TERMINAL_STATUS,
                               frame[p].payload, now)
        mission == IF frame[p].bound THEN applied.mission
                   ELSE [applied.mission EXCEPT
                            !.last_status = OwnRef(frame[p].payload)]
    IN  /\ frame[p].kind = "status" /\ frame[p].at = "l88"
        /\ IF i = 0
           THEN /\ frame' = [frame EXCEPT ![p].at = "done"]
                /\ UNCHANGED <<MISSIONS, LAST_TERMINAL_STATUS>>
           ELSE /\ MISSIONS' = [MISSIONS EXCEPT ![i] = mission]
                /\ LAST_TERMINAL_STATUS' = applied.terminal
                /\ frame' = [frame EXCEPT
                                ![p].mission = i,
                                ![p].at = IF applied.raised THEN "raised"
                                          ELSE "done"]
        /\ UNCHANGED <<MISSION_STATE, LAST_STATUS, CURRENT_MISSION_ID,
                       CONTROL_COMMAND>>
        /\ ThreadFrame

\* Every worker thread serves one /upload_photo or one /status_update.
NextThreads ==
    \/ \E p \in Workers : register_l127(p)
    \/ \E p \in Workers : register_l128(p)
    \/ \E p \in Workers : register_l129(p)
    \/ \E p \in Workers : register_l132_load(p)
    \/ \E p \in Workers : register_l132_store(p)
    \/ \E p \in Workers : register_l133(p)
    \/ \E p \in Workers, raw \in ThreadReports : status_l523(p, raw)
    \/ \E p \in Workers : status_l82(p)
    \/ \E p \in Workers : status_l84(p)
    \/ \E p \in Workers : status_l88(p)

SpecThreads == InitThreads /\ [][NextThreads]_vars

\* ------------------------------------------------------------------ claims

TerminalStatuses == {"complete", "home_unreachable", "aborted"}

\* C1: with handlers run one at a time, the first /control_state after a set
\* request answers the command that was set, and every other /control_state
\* (a later one, or one before any set) answers "none", whatever requests
\* ran in between.
C1_ControlPollOneShot ==
    op = "control_state" =>
        response.body.command = IF pollsSinceSet = 1 THEN lastSet ELSE "none"

\* A first poll after abort, reached after other requests, answered abort.
C1_Witness ==
    /\ op = "control_state"
    /\ lastSet = "abort"
    /\ pollsSinceSet = 1
    /\ response.body.command = "abort"
    /\ MISSIONS # <<>>

\* C4: with handlers run one at a time, a /mission_state right after
\* /start_mission answers "start" and resets the flag, and a /mission_state
\* right after a /mission_state answers "idle": of the polls that follow one
\* trigger exactly the first answers "start".
C4_StartPollOneShot ==
    [][op' = "mission_state" =>
         /\ op = "start_mission" =>
               /\ response'.body.mission_state = "start"
               /\ MISSION_STATE' = "idle"
         /\ op = "mission_state" =>
               /\ response'.body.mission_state = "idle"
               /\ MISSION_STATE' = "idle"]_vars

\* A poll answered "start".
C4_Witness ==
    /\ op = "mission_state"
    /\ response.body.mission_state = "start"
    /\ MISSION_STATE = "idle"

\* C5 as stated: once the start flag is set, every request other than
\* /mission_state leaves it set.
C5_FlagLatchedUntilPoll ==
    [][(MISSION_STATE = "start" /\ op' # "mission_state")
         => MISSION_STATE' = "start"]_vars

\* C5 amended: once the start flag is set, every request other than
\* /mission_state and other than a status report with status mission_idle
\* leaves it set, and /mission_state answers the flag it finds.
C5_FlagLatchedUnlessIdleReport ==
    [][/\ (/\ MISSION_STATE = "start"
           /\ op' # "mission_state"
           /\ ~(op' = "status_update"
                /\ Get(LAST_STATUS', "status", "") = "mission_idle"))
          => MISSION_STATE' = "start"
       /\ op' = "mission_state"
          => response'.body.mission_state = MISSION_STATE]_vars

\* The flag is still set after a status report was ingested.
C5_Witness ==
    /\ MISSION_STATE = "start"
    /\ op = "status_update"
    /\ Get(LAST_STATUS, "status", "") = "mission_complete"

\* C6 as stated: no request changes the status or ended_at of a mission
\* whose status is complete, home_unreachable or aborted.
C6_TerminalIsFinal ==
    [][\A i \in 1..Len(MISSIONS) :
          MISSIONS[i].status \in TerminalStatuses =>
              /\ MISSIONS'[i].status = MISSIONS[i].status
              /\ MISSIONS'[i].ended_at = MISSIONS[i].ended_at]_vars

\* C9: /start_mission while the current mission is terminal answers 200 with
\* the id of a new mission that is registered, pending and current, leaves
\* LAST_TERMINAL_STATUS None, and /missions still lists the previous mission
\* with the summary it had.
C9_StartAfterTerminal ==
    [][(/\ op' = "start_mission"
        /\ CURRENT_MISSION_ID # None
        /\ MISSIONS[Lookup(MISSIONS, CURRENT_MISSION_ID)].status
               \in TerminalStatuses)
         => LET previous == MISSIONS[Lookup(MISSIONS, CURRENT_MISSION_ID)]
                new == MISSIONS'[Len(MISSIONS')]
                listed == ListMissions(MISSIONS')
            IN  /\ response'.code = 200
                /\ Len(MISSIONS') = Len(MISSIONS) + 1
                /\ new.status = "pending"
                /\ \A i \in 1..Len(MISSIONS) : MISSIONS[i].id # new.id
                /\ CURRENT_MISSION_ID' = new.id
                /\ response'.body.mission_id = new.id
                /\ LAST_TERMINAL_STATUS' = None
                /\ \E j \in 1..Len(listed) :
                       listed[j] = _mission_summary(previous)]_vars

\* A mission was started after one that reached a waypoint and ended.
C9_Witness ==
    /\ op = "start_mission"
    /\ Len(MISSIONS) >= 2
    /\ MISSIONS[Len(MISSIONS) - 1].status \in TerminalStatuses
    /\ MISSIONS[Len(MISSIONS) - 1].waypoints_reached # {}

\* The list of /missions holds every registered mission once.
ListsEveryMission(listed) ==
    /\ Len(listed) = Len(MISSIONS)
    /\ \A i \in 1..Len(MISSIONS) :
           \E j \in 1..Len(listed) : listed[j].id = MISSIONS[i].id

\* C10 as stated: /missions lists every registered mission by started_at
\* descending, and of two missions started in the same second the one
\* created later comes first.
C10_TiesLaterFirst ==
    op = "missions" =>
        LET listed == response.body.missions IN
        /\ ListsEveryMission(listed)
        /\ \A a, b \in 1..Len(listed) :
               a < b =>
                   \/ listed[a].started_at > listed[b].started_at
                   \/ /\ listed[a].started_at = listed[b].started_at
                      /\ Lookup(MISSIONS, listed[a].id)
                             > Lookup(MISSIONS, listed[b].id)

\* C10 amended: /missions lists every registered mission by started_at
\* descending, and of two missions started in the same second the one
\* created earlier comes first.
C10_TiesInsertionOrder ==
    op = "missions" =>
        LET listed == response.body.missions IN
        /\ ListsEveryMission(listed)
        /\ \A a, b \in 1..Len(listed) :
               a < b =>
                   \/ listed[a].started_at > listed[b].started_at
                   \/ /\ listed[a].started_at = listed[b].started_at
                      /\ Lookup(MISSIONS, listed[a].id)
                             < Lookup(MISSIONS, listed[b].id)

\* /missions listed two missions of the same second and one of another.
C10_Witness ==
    /\ op = "missions"
    /\ \E a, b, c \in 1..Len(MISSIONS) :
           /\ MISSIONS[a].started_at = MISSIONS[b].started_at
           /\ a # b
           /\ MISSIONS[c].started_at # MISSIONS[a].started_at

AllPollsDone == \A p \in Pollers : pc[p] = "done"

\* C2 as stated: when the polls all start after the one set request is done
\* and run interleaved, exactly one of them answers the command that was set
\* and the others answer "none".
C2_ConcurrentPollsDeliverOnce ==
    (AllPollsDone /\ \A p \in Pollers : sawSet[p]) =>
        /\ Cardinality({p \in Pollers : returned[p] = setter}) = 1
        /\ \A p \in Pollers : returned[p] \in {setter, "none"}

\* C3 as stated: when the set request races the polls, the command is not
\* lost: once the set and the polls are done, a poll has answered the
\* command or the slot still holds it.
C3_CommandNotLost ==
    (AllPollsDone /\ setter # "start") =>
        \/ \E p \in Pollers : returned[p] = setter
        \/ CONTROL_COMMAND = setter

Ascending(seq) == \A a, b \in 1..Len(seq) : a < b => seq[a] < seq[b]

Elements(seq) == {seq[j] : j \in 1..Len(seq)}

\* C7: after mission_started, any waypoint_reached and waypoint_unreachable
\* reports with integer indices, and mission_complete, ingested in order with
\* no mission before: one mission exists, it is complete with ended_at set,
\* LAST_TERMINAL_STATUS is mission_complete, and its summary lists exactly the
\* reached indices and exactly the unreachable indices, each ascending.
C7_RunSummary ==
    /\ Len(MISSIONS) <= 1
    /\ phase = "done" =>
          /\ Len(MISSIONS) = 1
          /\ CURRENT_MISSION_ID = MISSIONS[1].id
          /\ MISSIONS[1].status = "complete"
          /\ MISSIONS[1].ended_at = <<now>>
          /\ LAST_TERMINAL_STATUS = "mission_complete"
          /\ response = Ok([ok |-> TRUE])
          /\ LET summary == _mission_summary(MISSIONS[1]) IN
             /\ Ascending(summary.waypoints_reached)
             /\ Elements(summary.waypoints_reached) = sentReached
             /\ Ascending(summary.waypoints_unreachable)
             /\ Elements(summary.waypoints_unreachable) = sentUnreachable

\* A run that reported two waypoints reached, one of them with a two-digit
\* index, and one unreachable has completed in a later second.
C7_Witness ==
    /\ phase = "done"
    /\ sentReached = {1, MaxIndex + 10}
    /\ sentUnreachable = {2}
    /\ MISSIONS[1].started_at < now

\* C8: n >= 1 uploads that carry an image, one after another with no mission
\* before, create one mission on the first upload and leave it current,
\* running and with images_count = n.
C8_UploadsCountImages ==
    /\ registered = 0 => MISSIONS = <<>> /\ CURRENT_MISSION_ID = None
    /\ registered >= 1 =>
          /\ Len(MISSIONS) = 1
          /\ CURRENT_MISSION_ID = MISSIONS[1].id
          /\ MISSIONS[1].images_count = registered
          /\ MISSIONS[1].status = "running"

\* Three uploads have been registered.
C8_Witness ==
    /\ registered = 3
    /\ Len(MISSIONS) = 1
    /\ MISSIONS[1].images_count = 3
    /\ op = "upload_photo"

\* C11 as stated: /abort_mission and /return_home each store their command
\* in the slot and answer 200.
C11_SetCommandSucceeds ==
    op \in {"abort_mission", "return_home"} =>
        /\ CONTROL_COMMAND = lastSet
        /\ response.code = 200

\* C12 as stated: /status_update answers 200 whatever the body, and a body
\* that cannot be parsed is recorded in LAST_STATUS with status
\* bad_status_payload.
C12_IngestAlwaysOk ==
    op = "status_update" =>
        /\ response.code = 200
        /\ request.kind = "unparsable" =>
               Get(LAST_STATUS, "status", "") = "bad_status_payload"

\* C13 as stated: as long as no /status_update has been served, /last_status
\* answers status no_status_yet, whatever other requests were served.
C13_DefaultUntilIngest ==
    (op = "last_status" /\ ~ingested) =>
        response.body.status = "no_status_yet"

\* C13 amended: as long as no /status_update has been served, /last_status
\* answers status no_status_yet if no /start_mission has been served either,
\* and status mission_idle with the id of the current mission once a
\* /start_mission has been served; uploads, commands and polls do not change
\* this.
C13_DefaultUntilStartOrIngest ==
    (op = "last_status" /\ ~ingested) =>
        IF triggered
        THEN /\ response.body.status = "mission_idle"
             /\ response.body.mission_id = CURRENT_MISSION_ID
        ELSE /\ response.body.status = "no_status_yet"
             /\ response.body.mission_id = OrPlaceholder(CURRENT_MISSION_ID)

\* /last_status answered mission_idle after a start and an upload, with no
\* report ingested.
C13_Witness ==
    /\ op = "last_status"
    /\ ~ingested
    /\ triggered
    /\ response.body.status = "mission_idle"
    /\ \E i \in 1..Len(MISSIONS) : MISSIONS[i].images_count > 0

\* C14 as stated: /last_status answers the current MISSION_STATE as
\* mission_state and the current LAST_TERMINAL_STATUS as terminal_status.
C14_SnapshotShowsCurrentFlag ==
    op = "last_status" =>
        /\ response.body.mission_state = MISSION_STATE
        /\ response.body.terminal_status = LAST_TERMINAL_STATUS

\* C15 as stated: /last_status and /missions leave every module global as
\* they found it: MISSIONS and every mission in it, CURRENT_MISSION_ID,
\* MISSION_STATE, CONTROL_COMMAND, LAST_TERMINAL_STATUS and LAST_STATUS.
C15_QueriesChangeNothing ==
    [][op' \in {"last_status", "missions"} => UNCHANGED globals]_vars

\* The status is a string that begins with home_unreachable.
BeginsHomeUnreachable(status) ==
    /\ IsString(status)
    /\ \E k \in 0..Len(status) : SubSeq(status, 1, k) = "home_unreachable"

\* C16: a /status_update whose status begins with home_unreachable, served
\* while a mission is current, leaves that mission with status
\* home_unreachable and ended_at set to the time of the request, and
\* LAST_TERMINAL_STATUS home_unreachable; a /status_update with any other
\* body turns no mission into home_unreachable, changes the ended_at of no
\* mission that is home_unreachable, and does not set LAST_TERMINAL_STATUS
\* to home_unreachable.
C16_HomeUnreachablePrefix ==
    [][op' = "status_update" =>
         LET status == IF request'.kind = "nonmapping" THEN ""
                       ELSE Get(ParsedBody(request'), "status", "")
             i == Lookup(MISSIONS, CURRENT_MISSION_ID)
         IN  IF BeginsHomeUnreachable(status)
             THEN CURRENT_MISSION_ID # None =>
                      /\ response'.code = 200
                      /\ MISSIONS'[i].status = "home_unreachable"
                      /\ MISSIONS'[i].ended_at = <<now'>>
                      /\ LAST_TERMINAL_STATUS' = "home_unreachable"
             ELSE /\ \A j \in 1..Len(MISSIONS') :
                         MISSIONS'[j].status = "home_unreachable" =>
                             /\ j <= Len(MISSIONS)
                             /\ MISSIONS[j].status = "home_unreachable"
                             /\ MISSIONS[j].ended_at = MISSIONS'[j].ended_at
                  /\ LAST_TERMINAL_STATUS' = "home_unreachable" =>
                         LAST_TERMINAL_STATUS = "home_unreachable"]_vars

\* A report home_unreachable_retry has ended a mission that was started in
\* an earlier second.
C16_Witness ==
    /\ op = "status_update"
    /\ request = Report([status |-> "home_unreachable_retry"])
    /\ CURRENT_MISSION_ID # None
    /\ MISSIONS[Lookup(MISSIONS, CURRENT_MISSION_ID)].status = "home_unreachable"
    /\ MISSIONS[Lookup(MISSIONS, CURRENT_MISSION_ID)].ended_at = <<now>>
    /\ LAST_TERMINAL_STATUS = "home_unreachable"
    /\ now > MISSIONS[Lookup(MISSIONS, CURRENT_MISSION_ID)].started_at

\* C17: a /status_update whose body yields a report (a dict, or the
\* bad_status_payload report of an unparsable body) with a status other than
\* mission_started, served while no mission is current, answers 200, creates
\* no mission, leaves MISSIONS, CURRENT_MISSION_ID, LAST_TERMINAL_STATUS and
\* CONTROL_COMMAND as they were, and leaves LAST_STATUS holding this report:
\* its fields, and the defaults for mission_state and mission_id where the
\* report has none.
C17_DroppedReportIsRecorded ==
    [][(/\ op' = "status_update"
        /\ CURRENT_MISSION_ID = None
        /\ request'.kind # "nonmapping"
        /\ Get(ParsedBody(request'), "status", "") # "mission_started")
         => LET report == ParsedBody(request') IN
            /\ response'.code = 200
            /\ MISSIONS' = MISSIONS
            /\ MISSIONS' = <<>>
            /\ CURRENT_MISSION_ID' = None
            /\ LAST_TERMINAL_STATUS' = LAST_TERMINAL_STATUS
            /\ CONTROL_COMMAND' = CONTROL_COMMAND
            /\ DOMAIN LAST_STATUS' =
                   DOMAIN report \cup {"mission_state", "mission_id"}
            /\ \A k \in DOMAIN report : LAST_STATUS'[k] = report[k]
            /\ ~Has(report, "mission_state") =>
                   LAST_STATUS'.mission_state = MISSION_STATE'
            /\ ~Has(report, "mission_id") =>
                   LAST_STATUS'.mission_id = NoMissionPlaceholder]_vars

\* With no mission yet and an abort pending, a report home_unreachable_retry
\* was recorded after an earlier report.
C17_Witness ==
    /\ op = "status_update"
    /\ nreq = 3
    /\ CURRENT_MISSION_ID = None
    /\ MISSIONS = <<>>
    /\ CONTROL_COMMAND = "abort"
    /\ request = Report([status |-> "home_unreachable_retry"])
    /\ LAST_STATUS.status = "home_unreachable_retry"

AllWorkersDone == \A p \in Workers : frame[p].at \in {"done", "raised"}

Uploaders == {p \in Workers : frame[p].kind = "upload"}

\* C18 as stated: when uploads and reports that run in threads from a state
\* with no current mission are all done, at most one mission has been
\* created, and its images_count is the number of uploads.
C18_OneMissionAllCounted ==
    AllWorkersDone =>
        /\ Len(MISSIONS) <= 1
        /\ Len(MISSIONS) = 1 =>
               MISSIONS[1].images_count = Cardinality(Uploaders)
        /\ Uploaders # {} => Len(MISSIONS) = 1

\* C19 as stated, its last part: when reports that run in threads are all
\* done and a mission is current, the last_status of the current mission is
\* the dict bound to LAST_STATUS.
C19_SameLastReport ==
    (/\ AllWorkersDone
     /\ \A p \in Workers : frame[p].kind = "status"
     /\ CURRENT_MISSION_ID # None)
        => MISSIONS[Lookup(MISSIONS, CURRENT_MISSION_ID)].last_status
               = SharedRef

\* C20: every request leaves every registered mission registered, under its
\* id and with its started_at, and the ids of the registry distinct;
\* CURRENT_MISSION_ID is None or the id of a registered mission, is never
\* set back to None, and changes only to the id of a mission registered by
\* that same request.
C20_RegistryOnlyGrows ==
    [][/\ Len(MISSIONS') >= Len(MISSIONS)
       /\ \A i \in 1..Len(MISSIONS) :
              /\ MISSIONS'[i].id = MISSIONS[i].id
              /\ MISSIONS'[i].started_at = MISSIONS[i].started_at
       /\ \A i, j \in 1..Len(MISSIONS') :
              i # j => MISSIONS'[i].id # MISSIONS'[j].id
       /\ \/ CURRENT_MISSION_ID' = None
          \/ \E i \in 1..Len(MISSIONS') : MISSIONS'[i].id = CURRENT_MISSION_ID'
       /\ CURRENT_MISSION_ID # None => CURRENT_MISSION_ID' # None
       /\ CURRENT_MISSION_ID' # CURRENT_MISSION_ID =>
              /\ Len(MISSIONS') = Len(MISSIONS) + 1
              /\ CURRENT_MISSION_ID' = MISSIONS'[Len(MISSIONS')].id]_vars

\* An upload was counted on the second mission, started after the first had
\* ended; both are registered.
C20_Witness ==
    /\ op = "upload_photo"
    /\ Len(MISSIONS) = 2
    /\ MISSIONS[1].status \in TerminalStatuses
    /\ CURRENT_MISSION_ID = MISSIONS[2].id
    /\ MISSIONS[2].images_count = 1

\* C21: with handlers run one at a time, when a set request replaced a
\* command that no /control_state had taken, the first /control_state after
\* it answers the command set last, every later one answers "none", and
\* none of them answers the replaced command where the two differ.
C21_LastWriteWins ==
    (op = "control_state" /\ overwritten # "none") =>
        /\ response.body.command = IF pollsSinceSet = 1 THEN lastSet ELSE "none"
        /\ overwritten # lastSet => response.body.command # overwritten
        /\ CONTROL_COMMAND = "none"

\* After abort and then go_home with no poll in between, and other requests
\* around them, a first poll answered go_home.
C21_Witness ==
    /\ op = "control_state"
    /\ overwritten = "abort"
    /\ lastSet = "go_home"
    /\ pollsSinceSet = 1
    /\ response.body.command = "go_home"
    /\ MISSIONS # <<>>

\* C22: /start_mission leaves CONTROL_COMMAND as it found it, and with
\* handlers run one at a time the first /control_state after a set request
\* answers the command that was set also when a /start_mission was served
\* between the set and the poll.
C22_StartKeepsCommand ==
    [][/\ op' = "start_mission" => CONTROL_COMMAND' = CONTROL_COMMAND
       /\ (op' = "control_state" /\ pollsSinceSet = 0 /\ startedSinceSet)
              => /\ response'.body.command = lastSet
                 /\ CONTROL_COMMAND = lastSet]_vars

\* An abort set before a start was answered by the first poll of the new
\* mission, which is current and pending.
C22_Witness ==
    /\ op = "control_state"
    /\ lastSet = "abort"
    /\ pollsSinceSet = 1
    /\ startedSinceSet
    /\ response.body.command = "abort"
    /\ CURRENT_MISSION_ID # None
    /\ MISSIONS[Lookup(MISSIONS, CURRENT_MISSION_ID)].status = "pending"

\* The LAST_TERMINAL_STATUS that goes with a mission status.
TerminalFor(status) ==
    IF status = "complete" THEN "mission_complete"
    ELSE IF status = "home_unreachable" THEN "home_unreachable"
    ELSE IF status = "aborted" THEN "mission_aborted_by_operator"
    ELSE None

\* C23 as stated: with handlers run one at a time, LAST_TERMINAL_STATUS is
\* mission_complete, home_unreachable or mission_aborted_by_operator exactly
\* when the current mission is complete, home_unreachable or aborted, and
\* None exactly when there is no current mission or it is pending or running.
C23_TerminalAgrees ==
    LAST_TERMINAL_STATUS =
        IF CURRENT_MISSION_ID = None THEN None
        ELSE TerminalFor(MISSIONS[Lookup(MISSIONS, CURRENT_MISSION_ID)].status)

\* C24 as stated: a /last_status served right after a /status_update whose
\* report carries no mission_id answers the id of the current mission, or
\* the placeholder when there is none.
C24_SnapshotShowsCurrentMission ==
    [][(/\ op = "status_update"
        /\ request.kind = "mapping"
        /\ ~Has(request.value, "mission_id")
        /\ op' = "last_status")
         => response'.body.mission_id = OrPlaceholder(CURRENT_MISSION_ID')]_vars

====
